---- MODULE Spec2Model ----
(***************************************************************************)
(* Model of the internal messaging subsystem of edu-mate                   *)
(* (src/routes/messages.py): the messages table, and one action per route  *)
(* handler.  A message id is the position of its row in the table: rows    *)
(* are inserted with increasing ids and no handler removes a row.  The     *)
(* account handlers of src/routes/auth.py that write several rows are      *)
(* modelled with their tables.                                             *)
(***************************************************************************)
EXTENDS Integers, Sequences, FiniteSets, TLC

VARIABLES
    messages,               \* the messages table
    now,                    \* the clock read by datetime.now()
    resp,                   \* the last request and its response
    connection,             \* the last request's store connection at its return
    message_notifications,  \* the message_notifications table
    users,                  \* the users table
    user_preferences,       \* the user_preferences table
    system_logs,            \* the system_logs table
    sending                 \* /messages/send requests between check and insert

vars == <<messages, now, resp, connection, message_notifications, users,
          user_preferences, system_logs, sending>>

\* The tables of the account handlers.
accounts == <<users, user_preferences, system_logs>>

\* What the handlers of the messages table leave alone, the clock apart.
rest == <<message_notifications, accounts, sending>>

\* ------------------------------------------------------------------ bounds
\* Largest number of rows the messages table holds in the model.
MaxMsgs == 2
\* Largest value of the clock read by datetime.now(); the clock starts at 1.
MaxTime == 2
\* Largest number of rows the users table holds in the model.
MaxAccounts == 2
\* Largest number of rows the system_logs table holds in the model.
MaxLogs == 3

\* --------------------------------------------------------------- constants
\* SQL NULL / Python None, for ids and timestamps (real ids and times are >= 1).
NULL == 0
\* The admin account that send_system_message uses as the sender.
SYSTEM_SENDER == 1
\* Shortest password register and forgot_password accept.
MinPasswordLength == 6
\* Accounts: the admin (1) and two ordinary users.
Users == {1, 2, 3}

\* ----------------------------------------------------------------- strings
\* A string is a sequence of tokens: SP is a whitespace character, every
\* other token is a run of non-whitespace text.
SP == "sp"
Marker == "Publication Request"
MarkerLower == "publication request"
RePrefix == "Re: "

RECURSIVE lstrip(_)
lstrip(s) == IF s # <<>> /\ Head(s) = SP THEN lstrip(Tail(s)) ELSE s

RECURSIVE rstrip(_)
rstrip(s) == IF s # <<>> /\ s[Len(s)] = SP THEN rstrip(SubSeq(s, 1, Len(s) - 1)) ELSE s

\* Variant: only the leading whitespace is dropped.
stripLeft(s) == lstrip(s)

\* str.strip(): drops leading and trailing whitespace.
strip(s) == rstrip(lstrip(s))

\* Python's  'Publication Request' in subject  (case-sensitive).
HasMarker(s) == \E i \in 1..Len(s) : s[i] = Marker

\* SQLite folds ASCII case in LIKE.
Fold(tok) == IF tok = Marker THEN MarkerLower ELSE tok

\* SQL  subject LIKE '%Publication Request%'.
Like(s) == \E i \in 1..Len(s) : Fold(s[i]) = Fold(Marker)

\* f"Re: {original_message['subject']}"
ReSubject(s) == <<RePrefix>> \o s

\* -------------------------------------------------------------- the table
\* Values of the columns an INSERT does not name.
ColumnDefaults ==
    [ parent_message_id      |-> NULL,
      related_content_id     |-> NULL,
      related_user_id        |-> NULL,
      is_read                |-> FALSE,
      read_at                |-> NULL,
      is_deleted_by_sender   |-> FALSE,
      is_deleted_by_receiver |-> FALSE ]

\* INSERT INTO messages: the named columns, the others at their defaults.
Insert(tbl, row) == Append(tbl, row @@ ColumnDefaults)

Ids(tbl) == 1..Len(tbl)

\* ------------------------------------------------------------- responses
\* resp is the last request and its response: the route, the session's user,
\* the message id of the URL, the outcome, the two lists of an inbox page
\* (as sets of ids), an unread count, the rows of a settings page, for a
\* view the clock it ran at, and for a delete whether it changed the table.
NoResp ==
    [ op |-> "none", user |-> NULL, mid |-> NULL, outcome |-> "none",
      at |-> NULL, received |-> {}, sent |-> {}, count |-> 0, settings |-> {},
      changed |-> FALSE ]

Reply(op, u, mid, outcome) ==
    [ NoResp EXCEPT !.op = op, !.user = u, !.mid = mid, !.outcome = outcome,
                    !.at = IF op = "view" THEN now ELSE NULL ]

\* Outcome of a request under a fault of the store: "connect" is
\* get_db_connection returning None, "execute" is a write statement raising.
Faults == {"none", "connect", "execute"}

\* Empty tables but for message_notifications, no request served yet.
Fresh ==
    /\ messages = <<>>
    /\ now = 1
    /\ resp = NoResp
    /\ connection = "none"
    /\ users = <<>>
    /\ user_preferences = <<>>
    /\ system_logs = <<>>
    /\ sending = {}

Init ==
    /\ Fresh
    /\ message_notifications = <<>>

\* The clock read by datetime.now() advances.
Tick ==
    /\ now < MaxTime
    /\ now' = now + 1
    /\ UNCHANGED <<messages, resp, connection, rest>>

\* ------------------------------------------------------------ get_unread_count
get_unread_count(tbl, u) ==
    Cardinality({ i \in Ids(tbl) :
        /\ tbl[i].receiver_id = u
        /\ ~tbl[i].is_read
        /\ ~tbl[i].is_deleted_by_receiver })

\* ----------------------------------------------------------------- inbox
\* Variant: the listing forgets the receiver's soft delete.
ReceivedQueryUnfiltered(tbl, u) ==
    { i \in Ids(tbl) : tbl[i].receiver_id = u }

ReceivedQuery(tbl, u) ==
    { i \in Ids(tbl) : tbl[i].receiver_id = u /\ ~tbl[i].is_deleted_by_receiver }

SentQuery(tbl, u) ==
    { i \in Ids(tbl) : tbl[i].sender_id = u /\ ~tbl[i].is_deleted_by_sender }

inbox(u, fault) ==
    /\ UNCHANGED <<messages, now, rest>>
    /\ IF fault = "connect"
       THEN resp' = Reply("inbox", u, NULL, "db_error") /\ connection' = "none"
       ELSE /\ resp' = [ Reply("inbox", u, NULL, "ok") EXCEPT
                           !.received = ReceivedQuery(messages, u),
                           !.sent = SentQuery(messages, u),
                           !.count = get_unread_count(messages, u) ]
            /\ connection' = "closed"

\* ---------------------------------------------------------- view_message
\* Variant: either party sees the message while either flag is clear.
ViewQueryAnyFlag(tbl, mid, u) ==
    /\ mid \in Ids(tbl)
    /\ tbl[mid].receiver_id = u \/ tbl[mid].sender_id = u
    /\ ~tbl[mid].is_deleted_by_receiver \/ ~tbl[mid].is_deleted_by_sender

ViewQuery(tbl, mid, u) ==
    /\ mid \in Ids(tbl)
    /\ \/ tbl[mid].receiver_id = u /\ ~tbl[mid].is_deleted_by_receiver
       \/ tbl[mid].sender_id = u /\ ~tbl[mid].is_deleted_by_sender

\* Variant: the receiver's view stamps read_at whether or not the message
\* was already read.
view_message_restamp(u, mid, fault) ==
    /\ UNCHANGED <<now, rest>>
    /\ IF fault = "connect"
       THEN /\ resp' = Reply("view", u, mid, "db_error") /\ connection' = "none"
            /\ UNCHANGED messages
       ELSE IF ~ViewQuery(messages, mid, u)
       THEN /\ resp' = Reply("view", u, mid, "denied") /\ connection' = "open"
            /\ UNCHANGED messages
       ELSE IF messages[mid].receiver_id = u
       THEN /\ messages' = [messages EXCEPT ![mid].is_read = TRUE,
                                            ![mid].read_at = now]
            /\ resp' = Reply("view", u, mid, "shown") /\ connection' = "open"
       ELSE /\ resp' = Reply("view", u, mid, "shown") /\ connection' = "open"
            /\ UNCHANGED messages

view_message(u, mid, fault) ==
    /\ UNCHANGED <<now, rest>>
    /\ IF fault = "connect"
       THEN /\ resp' = Reply("view", u, mid, "db_error") /\ connection' = "none"
            /\ UNCHANGED messages
       ELSE IF ~ViewQuery(messages, mid, u)
       THEN /\ resp' = Reply("view", u, mid, "denied") /\ connection' = "open"
            /\ UNCHANGED messages
       ELSE IF messages[mid].receiver_id = u /\ ~messages[mid].is_read
       THEN IF fault = "execute"
            THEN /\ resp' = Reply("view", u, mid, "error") /\ connection' = "closed"
                 /\ UNCHANGED messages
            ELSE /\ messages' = [messages EXCEPT ![mid].is_read = TRUE,
                                                 ![mid].read_at = now]
                 /\ resp' = Reply("view", u, mid, "shown") /\ connection' = "open"
       ELSE /\ resp' = Reply("view", u, mid, "shown") /\ connection' = "open"
            /\ UNCHANGED messages

\* ------------------------------------------------------- compose_message
\* Row written by compose_message (the form route names no related content).
ComposeRow(u, receiver_id, subject, content) ==
    [ sender_id    |-> u,
      receiver_id  |-> receiver_id,
      subject      |-> subject,
      content      |-> content,
      message_type |-> "personal",
      sent_at      |-> now ]

\* Variant: the validation tests the receiver and the subject only.
compose_message_content_unchecked(u, method, receiver_id, rawSubject, rawContent, fault) ==
    LET subject == strip(rawSubject)
        content == strip(rawContent)
    IN
    /\ UNCHANGED <<now, rest>>
    /\ IF method = "GET"
       THEN /\ resp' = Reply("compose", u, NULL, "form") /\ connection' = "closed"
            /\ UNCHANGED messages
       ELSE IF receiver_id = NULL \/ subject = <<>>
       THEN /\ resp' = Reply("compose", u, NULL, "invalid") /\ connection' = "none"
            /\ UNCHANGED messages
       ELSE IF fault = "connect"
       THEN /\ resp' = Reply("compose", u, NULL, "db_error") /\ connection' = "none"
            /\ UNCHANGED messages
       ELSE IF fault = "execute"
       THEN /\ resp' = Reply("compose", u, NULL, "error") /\ connection' = "closed"
            /\ UNCHANGED messages
       ELSE /\ Len(messages) < MaxMsgs
            /\ messages' = Insert(messages, ComposeRow(u, receiver_id, subject, content))
            /\ resp' = Reply("compose", u, NULL, "ok") /\ connection' = "closed"

compose_message(u, method, receiver_id, rawSubject, rawContent, fault) ==
    LET subject == strip(rawSubject)
        content == strip(rawContent)
    IN
    /\ UNCHANGED <<now, rest>>
    /\ IF method = "GET"
       THEN /\ resp' = Reply("compose", u, NULL, "form") /\ connection' = "closed"
            /\ UNCHANGED messages
       ELSE IF receiver_id = NULL \/ subject = <<>> \/ content = <<>>
       THEN /\ resp' = Reply("compose", u, NULL, "invalid") /\ connection' = "none"
            /\ UNCHANGED messages
       ELSE IF fault = "connect"
       THEN /\ resp' = Reply("compose", u, NULL, "db_error") /\ connection' = "none"
            /\ UNCHANGED messages
       ELSE IF fault = "execute"
       THEN /\ resp' = Reply("compose", u, NULL, "error") /\ connection' = "closed"
            /\ UNCHANGED messages
       ELSE /\ Len(messages) < MaxMsgs
            /\ messages' = Insert(messages, ComposeRow(u, receiver_id, subject, content))
            /\ resp' = Reply("compose", u, NULL, "ok") /\ connection' = "closed"

\* --------------------------------------------------------- reply_message
\* Variant: the original is fetched without the receiver's soft-delete test.
ReplyQueryDeleted(tbl, mid, u) ==
    /\ mid \in Ids(tbl)
    /\ tbl[mid].receiver_id = u

ReplyQuery(tbl, mid, u) ==
    /\ mid \in Ids(tbl)
    /\ tbl[mid].receiver_id = u
    /\ ~tbl[mid].is_deleted_by_receiver

\* Variant: the reply goes back to the original's receiver, not its sender.
ReplyRowToReceiver(u, original, mid, content) ==
    [ sender_id         |-> u,
      receiver_id       |-> original.receiver_id,
      subject           |-> ReSubject(original.subject),
      content           |-> content,
      message_type      |-> "personal",
      parent_message_id |-> mid,
      sent_at           |-> now ]

ReplyRow(u, original, mid, content) ==
    [ sender_id         |-> u,
      receiver_id       |-> original.sender_id,
      subject           |-> ReSubject(original.subject),
      content           |-> content,
      message_type      |-> "personal",
      parent_message_id |-> mid,
      sent_at           |-> now ]

reply_message(u, method, mid, rawContent, fault) ==
    LET content == strip(rawContent) IN
    /\ UNCHANGED <<now, rest>>
    /\ IF fault = "connect"
       THEN /\ resp' = Reply("reply", u, mid, "db_error") /\ connection' = "none"
            /\ UNCHANGED messages
       ELSE IF ~ReplyQuery(messages, mid, u)
       THEN /\ resp' = Reply("reply", u, mid, "denied") /\ connection' = "closed"
            /\ UNCHANGED messages
       ELSE IF method = "GET"
       THEN /\ resp' = Reply("reply", u, mid, "form") /\ connection' = "closed"
            /\ UNCHANGED messages
       ELSE IF content = <<>>
       THEN /\ resp' = Reply("reply", u, mid, "invalid") /\ connection' = "closed"
            /\ UNCHANGED messages
       ELSE IF fault = "execute"
       THEN /\ resp' = Reply("reply", u, mid, "error") /\ connection' = "closed"
            /\ UNCHANGED messages
       ELSE /\ Len(messages) < MaxMsgs
            /\ messages' = Insert(messages, ReplyRow(u, messages[mid], mid, content))
            /\ resp' = Reply("reply", u, mid, "ok") /\ connection' = "closed"

\* ---------------------------------------------------------- mark_as_read
\* Variant: the UPDATE names the id only, so any user marks any message.
MarkReadUpdateAnyUser(tbl, mid, u, t) ==
    [ i \in Ids(tbl) |->
        IF i = mid
        THEN [tbl[i] EXCEPT !.is_read = TRUE, !.read_at = t]
        ELSE tbl[i] ]

\* UPDATE messages SET is_read = TRUE, read_at = ? WHERE id = ? AND receiver_id = ?
MarkReadUpdate(tbl, mid, u, t) ==
    [ i \in Ids(tbl) |->
        IF i = mid /\ tbl[i].receiver_id = u
        THEN [tbl[i] EXCEPT !.is_read = TRUE, !.read_at = t]
        ELSE tbl[i] ]

mark_as_read(u, mid, fault) ==
    /\ UNCHANGED <<now, rest>>
    /\ IF fault = "connect"
       THEN /\ resp' = Reply("mark_read", u, mid, "db_error") /\ connection' = "none"
            /\ UNCHANGED messages
       ELSE IF fault = "execute"
       THEN /\ resp' = Reply("mark_read", u, mid, "error") /\ connection' = "closed"
            /\ UNCHANGED messages
       ELSE /\ messages' = MarkReadUpdate(messages, mid, u, now)
            /\ resp' = [ Reply("mark_read", u, mid, "ok") EXCEPT
                           !.count = get_unread_count(messages', u) ]
            /\ connection' = "closed"

\* -------------------------------------------------------- delete_message
\* Variant: the second branch is a plain else, so a user who is not the
\* sender deletes as if the receiver.
delete_message_else(u, mid, fault) ==
    /\ UNCHANGED <<now, rest>>
    /\ IF fault = "connect"
       THEN /\ resp' = Reply("delete", u, mid, "db_error") /\ connection' = "none"
            /\ UNCHANGED messages
       ELSE IF mid \notin Ids(messages)
       THEN /\ resp' = Reply("delete", u, mid, "not_found") /\ connection' = "closed"
            /\ UNCHANGED messages
       ELSE /\ messages' =
                 IF messages[mid].sender_id = u
                 THEN [messages EXCEPT ![mid].is_deleted_by_sender = TRUE]
                 ELSE [messages EXCEPT ![mid].is_deleted_by_receiver = TRUE]
            /\ resp' = [ Reply("delete", u, mid, "ok") EXCEPT
                           !.changed = (messages' # messages) ]
            /\ connection' = "closed"

\* Variant: the delete removes the row (DELETE FROM messages WHERE id = ?).
delete_message_hard(u, mid, fault) ==
    /\ UNCHANGED <<now, rest>>
    /\ IF fault = "connect"
       THEN /\ resp' = Reply("delete", u, mid, "db_error") /\ connection' = "none"
            /\ UNCHANGED messages
       ELSE IF mid \notin Ids(messages)
       THEN /\ resp' = Reply("delete", u, mid, "not_found") /\ connection' = "closed"
            /\ UNCHANGED messages
       ELSE IF messages[mid].sender_id # u /\ messages[mid].receiver_id # u
       THEN /\ resp' = Reply("delete", u, mid, "denied") /\ connection' = "closed"
            /\ UNCHANGED messages
       ELSE /\ messages' = [ i \in 1..(Len(messages) - 1) |->
                               IF i < mid THEN messages[i] ELSE messages[i + 1] ]
            /\ resp' = Reply("delete", u, mid, "ok") /\ connection' = "closed"

\* Variant: a delete by either party hides the message from both.
delete_message_both(u, mid, fault) ==
    /\ UNCHANGED <<now, rest>>
    /\ IF fault = "connect"
       THEN /\ resp' = Reply("delete", u, mid, "db_error") /\ connection' = "none"
            /\ UNCHANGED messages
       ELSE IF mid \notin Ids(messages)
       THEN /\ resp' = Reply("delete", u, mid, "not_found") /\ connection' = "closed"
            /\ UNCHANGED messages
       ELSE IF messages[mid].sender_id # u /\ messages[mid].receiver_id # u
       THEN /\ resp' = Reply("delete", u, mid, "denied") /\ connection' = "closed"
            /\ UNCHANGED messages
       ELSE /\ messages' = [messages EXCEPT ![mid].is_deleted_by_sender = TRUE,
                                            ![mid].is_deleted_by_receiver = TRUE]
            /\ resp' = Reply("delete", u, mid, "ok") /\ connection' = "closed"

\* Variant: the ownership SELECT leaves out what the requester has deleted.
delete_message_once(u, mid, fault) ==
    /\ UNCHANGED <<now, rest>>
    /\ IF fault = "connect"
       THEN /\ resp' = Reply("delete", u, mid, "db_error") /\ connection' = "none"
            /\ UNCHANGED messages
       ELSE IF \/ mid \notin Ids(messages)
               \/ messages[mid].sender_id = u /\ messages[mid].is_deleted_by_sender
               \/ messages[mid].receiver_id = u /\ messages[mid].is_deleted_by_receiver
       THEN /\ resp' = Reply("delete", u, mid, "not_found") /\ connection' = "closed"
            /\ UNCHANGED messages
       ELSE IF messages[mid].sender_id # u /\ messages[mid].receiver_id # u
       THEN /\ resp' = Reply("delete", u, mid, "denied") /\ connection' = "closed"
            /\ UNCHANGED messages
       ELSE /\ messages' =
                 IF messages[mid].sender_id = u
                 THEN [messages EXCEPT ![mid].is_deleted_by_sender = TRUE]
                 ELSE [messages EXCEPT ![mid].is_deleted_by_receiver = TRUE]
            /\ resp' = [ Reply("delete", u, mid, "ok") EXCEPT
                           !.changed = (messages' # messages) ]
            /\ connection' = "closed"

delete_message(u, mid, fault) ==
    /\ UNCHANGED <<now, rest>>
    /\ IF fault = "connect"
       THEN /\ resp' = Reply("delete", u, mid, "db_error") /\ connection' = "none"
            /\ UNCHANGED messages
       ELSE IF mid \notin Ids(messages)
       THEN /\ resp' = Reply("delete", u, mid, "not_found") /\ connection' = "closed"
            /\ UNCHANGED messages
       ELSE IF messages[mid].sender_id # u /\ messages[mid].receiver_id # u
       THEN /\ resp' = Reply("delete", u, mid, "denied") /\ connection' = "closed"
            /\ UNCHANGED messages
       ELSE IF fault = "execute"
       THEN /\ resp' = Reply("delete", u, mid, "error") /\ connection' = "closed"
            /\ UNCHANGED messages
       ELSE /\ messages' =
                 IF messages[mid].sender_id = u
                 THEN [messages EXCEPT ![mid].is_deleted_by_sender = TRUE]
                 ELSE [messages EXCEPT ![mid].is_deleted_by_receiver = TRUE]
            /\ resp' = [ Reply("delete", u, mid, "ok") EXCEPT
                           !.changed = (messages' # messages) ]
            /\ connection' = "closed"

\* ---------------------------------------------------------- send_message
\* Variant: the receiver and the content id are bound in the wrong order.
DuplicateCountSwapped(tbl, u, receiver_id, related_content_id) ==
    Cardinality({ i \in Ids(tbl) :
        /\ tbl[i].sender_id = u
        /\ tbl[i].receiver_id = related_content_id
        /\ tbl[i].related_content_id = receiver_id
        /\ Like(tbl[i].subject)
        /\ ~tbl[i].is_deleted_by_sender
        /\ ~tbl[i].is_deleted_by_receiver })

\* SELECT COUNT(*) of the live publication requests of u to receiver_id
\* about related_content_id.
DuplicateCount(tbl, u, receiver_id, related_content_id) ==
    Cardinality({ i \in Ids(tbl) :
        /\ tbl[i].sender_id = u
        /\ tbl[i].receiver_id = receiver_id
        /\ tbl[i].related_content_id = related_content_id
        /\ Like(tbl[i].subject)
        /\ ~tbl[i].is_deleted_by_sender
        /\ ~tbl[i].is_deleted_by_receiver })

SendRow(u, receiver_id, subject, content, related_content_id) ==
    [ sender_id          |-> u,
      receiver_id        |-> receiver_id,
      subject            |-> subject,
      content            |-> content,
      message_type       |-> "personal",
      related_content_id |-> related_content_id,
      sent_at            |-> now ]

\* Variant: the INSERT runs without the count of the live requests.
send_message_unguarded(u, receiver_id, rawSubject, rawContent, related_content_id, fault) ==
    LET subject == strip(rawSubject)
        content == strip(rawContent)
    IN
    /\ UNCHANGED <<now, rest>>
    /\ IF receiver_id = NULL \/ subject = <<>> \/ content = <<>>
       THEN /\ resp' = Reply("send", u, NULL, "invalid") /\ connection' = "none"
            /\ UNCHANGED messages
       ELSE IF fault = "connect"
       THEN /\ resp' = Reply("send", u, NULL, "db_error") /\ connection' = "none"
            /\ UNCHANGED messages
       ELSE IF fault = "execute"
       THEN /\ resp' = Reply("send", u, NULL, "error") /\ connection' = "open"
            /\ UNCHANGED messages
       ELSE /\ Len(messages) < MaxMsgs
            /\ messages' = Insert(messages,
                   SendRow(u, receiver_id, subject, content, related_content_id))
            /\ resp' = Reply("send", u, NULL, "ok") /\ connection' = "closed"

send_message(u, receiver_id, rawSubject, rawContent, related_content_id, fault) ==
    LET subject == strip(rawSubject)
        content == strip(rawContent)
    IN
    /\ UNCHANGED <<now, rest>>
    /\ IF receiver_id = NULL \/ subject = <<>> \/ content = <<>>
       THEN /\ resp' = Reply("send", u, NULL, "invalid") /\ connection' = "none"
            /\ UNCHANGED messages
       ELSE IF fault = "connect"
       THEN /\ resp' = Reply("send", u, NULL, "db_error") /\ connection' = "none"
            /\ UNCHANGED messages
       ELSE IF /\ HasMarker(subject)
               /\ related_content_id # NULL
               /\ DuplicateCount(messages, u, receiver_id, related_content_id) > 0
       THEN /\ resp' = Reply("send", u, NULL, "duplicate") /\ connection' = "closed"
            /\ UNCHANGED messages
       ELSE IF fault = "execute"
       THEN /\ resp' = Reply("send", u, NULL, "error") /\ connection' = "open"
            /\ UNCHANGED messages
       ELSE /\ Len(messages) < MaxMsgs
            /\ messages' = Insert(messages,
                   SendRow(u, receiver_id, subject, content, related_content_id))
            /\ resp' = Reply("send", u, NULL, "ok") /\ connection' = "closed"

\* ----------------------------------------- send_message, statement by statement
\* Two requests run send_message on connections of their own.  The SELECT
\* of the guard reads the committed table; the INSERT and its commit come
\* later, and other requests may commit in between.  sending holds the
\* requests that have passed the guard and not yet inserted, under the name
\* of their client.

\* send_message up to the INSERT: the fields, the connection, the guard.
send_check(p, u, receiver_id, rawSubject, rawContent, related_content_id, fault) ==
    LET subject == strip(rawSubject)
        content == strip(rawContent)
    IN
    /\ \A q \in sending : q.client # p
    /\ UNCHANGED <<messages, now, message_notifications, accounts>>
    /\ IF receiver_id = NULL \/ subject = <<>> \/ content = <<>>
       THEN /\ resp' = Reply("send", u, NULL, "invalid") /\ connection' = "none"
            /\ UNCHANGED sending
       ELSE IF fault = "connect"
       THEN /\ resp' = Reply("send", u, NULL, "db_error") /\ connection' = "none"
            /\ UNCHANGED sending
       ELSE IF /\ HasMarker(subject)
               /\ related_content_id # NULL
               /\ DuplicateCount(messages, u, receiver_id, related_content_id) > 0
       THEN /\ resp' = Reply("send", u, NULL, "duplicate") /\ connection' = "closed"
            /\ UNCHANGED sending
       ELSE /\ sending' = sending \cup
                   { [ client |-> p, user |-> u, receiver_id |-> receiver_id,
                       subject |-> subject, content |-> content,
                       related_content_id |-> related_content_id ] }
            /\ UNCHANGED <<resp, connection>>

\* Variant: the INSERT runs under a lock with the count taken again.
send_insert_locked(p, fault) ==
    \E q \in sending :
       /\ q.client = p
       /\ sending' = sending \ {q}
       /\ UNCHANGED <<now, message_notifications, accounts>>
       /\ IF /\ HasMarker(q.subject)
             /\ q.related_content_id # NULL
             /\ DuplicateCount(messages, q.user, q.receiver_id, q.related_content_id) > 0
          THEN /\ resp' = Reply("send", q.user, NULL, "duplicate") /\ connection' = "closed"
               /\ UNCHANGED messages
          ELSE /\ Len(messages) < MaxMsgs
               /\ messages' = Insert(messages,
                      SendRow(q.user, q.receiver_id, q.subject, q.content,
                              q.related_content_id))
               /\ resp' = Reply("send", q.user, NULL, "ok") /\ connection' = "closed"

\* send_message from the INSERT on: the row, the commit, the response.
send_insert(p, fault) ==
    \E q \in sending :
       /\ q.client = p
       /\ sending' = sending \ {q}
       /\ UNCHANGED <<now, message_notifications, accounts>>
       /\ IF fault = "execute"
          THEN /\ resp' = Reply("send", q.user, NULL, "error") /\ connection' = "open"
               /\ UNCHANGED messages
          ELSE /\ Len(messages) < MaxMsgs
               /\ messages' = Insert(messages,
                      SendRow(q.user, q.receiver_id, q.subject, q.content,
                              q.related_content_id))
               /\ resp' = Reply("send", q.user, NULL, "ok") /\ connection' = "closed"

\* --------------------------------------------------- send_system_message
SystemRow(receiver_id, subject, content, message_type, related_content_id, related_user_id) ==
    [ sender_id          |-> SYSTEM_SENDER,
      receiver_id        |-> receiver_id,
      subject            |-> subject,
      content            |-> content,
      message_type       |-> message_type,
      related_content_id |-> related_content_id,
      related_user_id    |-> related_user_id,
      sent_at            |-> now ]

\* Variant: the INSERT runs outside the try block, so its exception reaches
\* the caller.
send_system_message_uncaught(receiver_id, subject, content, message_type, related_content_id, related_user_id, fault) ==
    /\ UNCHANGED <<now, rest>>
    /\ IF fault = "connect"
       THEN /\ resp' = Reply("system", NULL, NULL, "false")
            /\ connection' = "none"
            /\ UNCHANGED messages
       ELSE IF fault = "execute"
       THEN /\ resp' = Reply("system", NULL, NULL, "raised")
            /\ connection' = "open"
            /\ UNCHANGED messages
       ELSE /\ Len(messages) < MaxMsgs
            /\ messages' = Insert(messages,
                   SystemRow(receiver_id, subject, content, message_type,
                             related_content_id, related_user_id))
            /\ resp' = Reply("system", NULL, NULL, "true")
            /\ connection' = "closed"

\* The outcome is the value returned to the caller: "true", "false", or
\* "raised" for an exception that leaves the function.  An exception of the
\* INSERT or of the commit is caught, rolled back and answered False.
send_system_message(receiver_id, subject, content, message_type, related_content_id, related_user_id, fault) ==
    /\ UNCHANGED <<now, rest>>
    /\ IF fault = "connect"
       THEN /\ resp' = Reply("system", NULL, NULL, "false")
            /\ connection' = "none"
            /\ UNCHANGED messages
       ELSE IF fault = "execute"
       THEN /\ resp' = Reply("system", NULL, NULL, "false")
            /\ connection' = "closed"
            /\ UNCHANGED messages
       ELSE /\ Len(messages) < MaxMsgs
            /\ messages' = Insert(messages,
                   SystemRow(receiver_id, subject, content, message_type,
                             related_content_id, related_user_id))
            /\ resp' = Reply("system", NULL, NULL, "true")
            /\ connection' = "closed"

\* ------------------------------------------------------- api_unread_count
\* get_unread_count opens and closes a connection of its own and answers 0
\* when there is none.
api_unread_count(u, fault) ==
    /\ UNCHANGED <<messages, now, rest>>
    /\ IF fault = "connect"
       THEN /\ resp' = Reply("unread_count", u, NULL, "ok")
            /\ connection' = "none"
       ELSE /\ resp' = [ Reply("unread_count", u, NULL, "ok") EXCEPT
                           !.count = get_unread_count(messages, u) ]
            /\ connection' = "closed"

\* ---------------------------------------------- check_publication_request
\* SELECT COUNT(*) of the live publication requests of u to the admin about
\* content_id.
PublicationRequestCount(tbl, u, content_id) ==
    Cardinality({ i \in Ids(tbl) :
        /\ tbl[i].sender_id = u
        /\ tbl[i].receiver_id = SYSTEM_SENDER
        /\ tbl[i].related_content_id = content_id
        /\ Like(tbl[i].subject)
        /\ ~tbl[i].is_deleted_by_sender
        /\ ~tbl[i].is_deleted_by_receiver })

check_publication_request(u, content_id, fault) ==
    /\ UNCHANGED <<messages, now, rest>>
    /\ IF fault = "connect"
       THEN /\ resp' = Reply("check_request", u, NULL, "db_error")
            /\ connection' = "none"
       ELSE /\ resp' = Reply("check_request", u, NULL,
                   IF PublicationRequestCount(messages, u, content_id) > 0
                   THEN "exists" ELSE "absent")
            /\ connection' = "closed"

\* ------------------------------------------------- notification settings
\* The notification types update_notification_settings loops over.
NotificationTypes ==
    << "new_message", "message_reply", "system_announcement", "content_feedback" >>

\* SELECT * FROM message_notifications WHERE user_id = ?
SettingsQuery(tbl, u) == { i \in 1..Len(tbl) : tbl[i].user_id = u }

notification_settings(u, fault) ==
    /\ UNCHANGED <<messages, now, rest>>
    /\ IF fault = "connect"
       THEN /\ resp' = Reply("settings", u, NULL, "db_error")
            /\ connection' = "none"
       ELSE /\ resp' = [ Reply("settings", u, NULL, "ok") EXCEPT
                           !.settings = SettingsQuery(message_notifications, u) ]
            /\ connection' = "closed"

\* Variant: the UPDATE names the notification type only, not the user.
UpdateSettingAnyUser(tbl, u, type, flags, t) ==
    [ i \in 1..Len(tbl) |->
        IF tbl[i].notification_type = type
        THEN [tbl[i] EXCEPT !.is_enabled = flags.enabled,
                            !.email_enabled = flags.email,
                            !.updated_at = t]
        ELSE tbl[i] ]

\* UPDATE message_notifications SET is_enabled = ?, email_enabled = ?,
\* updated_at = ? WHERE user_id = ? AND notification_type = ?
UpdateSetting(tbl, u, type, flags, t) ==
    [ i \in 1..Len(tbl) |->
        IF tbl[i].user_id = u /\ tbl[i].notification_type = type
        THEN [tbl[i] EXCEPT !.is_enabled = flags.enabled,
                            !.email_enabled = flags.email,
                            !.updated_at = t]
        ELSE tbl[i] ]

\* The loop over the notification types: form[type] holds the two checkboxes
\* of the type, already compared with 'on'.
RECURSIVE UpdateSettings(_, _, _, _, _)
UpdateSettings(tbl, u, types, form, t) ==
    IF types = <<>>
    THEN tbl
    ELSE UpdateSettings(UpdateSetting(tbl, u, Head(types), form[Head(types)], t),
                        u, Tail(types), form, t)

\* The four UPDATEs run in one transaction, committed after the loop; an
\* UPDATE that raises ("execute") is answered by a rollback of those before.
update_notification_settings(u, form, fault) ==
    /\ UNCHANGED <<messages, now, accounts, sending>>
    /\ IF fault = "connect"
       THEN /\ resp' = Reply("update_settings", u, NULL, "db_error")
            /\ connection' = "none"
            /\ UNCHANGED message_notifications
       ELSE IF fault = "execute"
       THEN /\ resp' = Reply("update_settings", u, NULL, "error")
            /\ connection' = "closed"
            /\ UNCHANGED message_notifications
       ELSE /\ message_notifications' =
                  UpdateSettings(message_notifications, u, NotificationTypes, form, now)
            /\ resp' = Reply("update_settings", u, NULL, "ok")
            /\ connection' = "closed"

\* --------------------------------------------------------- login_required
\* Variant: the decorator calls the handler whatever the session holds.
login_required_unchecked(op, u, mid, handler) == handler

\* The decorator of every messaging route: u is the session's user_id, NULL
\* when the session holds none; handler is the decorated handler's step.
login_required(op, u, mid, handler) ==
    IF u = NULL
    THEN /\ resp' = Reply(op, NULL, mid, "login")
         /\ connection' = "none"
         /\ UNCHANGED <<messages, now, rest>>
    ELSE handler

\* ------------------------------------------ account handlers (routes/auth.py)
\* The text fields of the account forms are sequences of tokens like the
\* message fields; a password is a sequence of characters.  Of the columns
\* of users, those the two handlers read or write after the INSERT are
\* modelled (full_name, role and interests are stored as given).

\* Value of the column the INSERT INTO users does not name.
UserDefaults == [ is_active |-> TRUE ]

\* generate_password_hash
Hash(password) == <<"hash", password>>

\* The checks of the registration form (all fields, ID number of digits,
\* e-mail and password patterns, terms, confirmation, length).  well_formed
\* says that the form passes the three pattern checks.
RegisterValid(form) ==
    /\ form.username # <<>>
    /\ form.email # <<>>
    /\ form.password # <<>>
    /\ strip(form.id_number) # <<>>
    /\ form.well_formed
    /\ form.terms
    /\ form.password = form.confirm_password
    /\ Len(form.password) >= MinPasswordLength

\* SELECT id FROM users WHERE username = ? OR email = ? OR id_number = ?
ExistingUser(tbl, form) ==
    \E i \in 1..Len(tbl) :
       \/ tbl[i].username = form.username
       \/ tbl[i].email = form.email
       \/ tbl[i].id_number = strip(form.id_number)

UserRow(form) ==
    [ username      |-> form.username,
      email         |-> form.email,
      password_hash |-> Hash(form.password),
      id_number     |-> strip(form.id_number),
      created_at    |-> now,
      updated_at    |-> now ] @@ UserDefaults

PreferencesRow(user_id) ==
    [ user_id |-> user_id, created_at |-> now, updated_at |-> now ]

LogRow(user_id, action) ==
    [ user_id |-> user_id, action |-> action, resource_type |-> "user",
      created_at |-> now ]

\* The statement of register that raises, if any: the connection, the
\* SELECT, an INSERT, the first commit (user and preferences) or the second
\* (the log).
RegisterFaults ==
    { "none", "connect", "select", "insert_user", "insert_preferences", "commit",
      "insert_log", "commit_log" }

\* u is the session's user_id (NULL for none).  The user row and the
\* preferences row are committed together; the log row is inserted and
\* committed after that; an exception anywhere is answered by the
\* registration error, and closing the connection drops what is uncommitted.
register(u, method, form, fault) ==
    /\ UNCHANGED <<messages, now, message_notifications, sending>>
    /\ IF u # NULL
       THEN /\ resp' = Reply("register", u, NULL, "redirect") /\ connection' = "none"
            /\ UNCHANGED accounts
       ELSE IF method = "GET"
       THEN /\ resp' = Reply("register", u, NULL, "form") /\ connection' = "none"
            /\ UNCHANGED accounts
       ELSE IF ~RegisterValid(form)
       THEN /\ resp' = Reply("register", u, NULL, "invalid") /\ connection' = "none"
            /\ UNCHANGED accounts
       ELSE IF fault = "connect"
       THEN /\ resp' = Reply("register", u, NULL, "db_error") /\ connection' = "none"
            /\ UNCHANGED accounts
       ELSE IF fault = "select"
       THEN /\ resp' = Reply("register", u, NULL, "error") /\ connection' = "closed"
            /\ UNCHANGED accounts
       ELSE IF ExistingUser(users, form)
       THEN /\ resp' = Reply("register", u, NULL, "exists") /\ connection' = "closed"
            /\ UNCHANGED accounts
       ELSE IF fault \in {"insert_user", "insert_preferences", "commit"}
       THEN /\ resp' = Reply("register", u, NULL, "error") /\ connection' = "closed"
            /\ UNCHANGED accounts
       ELSE /\ Len(users) < MaxAccounts
            /\ users' = Append(users, UserRow(form))
            /\ user_preferences' = Append(user_preferences, PreferencesRow(Len(users) + 1))
            /\ IF fault \in {"insert_log", "commit_log"}
               THEN /\ resp' = Reply("register", u, NULL, "error") /\ connection' = "closed"
                    /\ UNCHANGED system_logs
               ELSE /\ Len(system_logs) < MaxLogs
                    /\ system_logs' = Append(system_logs, LogRow(Len(users) + 1, "REGISTERED"))
                    /\ resp' = Reply("register", u, NULL, "ok") /\ connection' = "closed"

\* The checks of the password form, on the stripped fields.
ResetValid(email, id_number, new_password, confirm_password) ==
    /\ email # <<>>
    /\ id_number # <<>>
    /\ new_password # <<>>
    /\ confirm_password # <<>>
    /\ new_password = confirm_password
    /\ Len(new_password) >= MinPasswordLength

\* SELECT id FROM users WHERE email = ? AND id_number = ? AND is_active = 1
ResetQuery(tbl, email, id_number) ==
    { i \in 1..Len(tbl) :
        tbl[i].email = email /\ tbl[i].id_number = id_number /\ tbl[i].is_active }

\* The statement of forgot_password that raises, if any.
ResetFaults == { "none", "connect", "select", "update", "insert_log", "commit" }

\* The password UPDATE and the log INSERT are committed together.
forgot_password(u, method, form, fault) ==
    LET email == strip(form.email)
        id_number == strip(form.id_number)
        new_password == strip(form.new_password)
        confirm_password == strip(form.confirm_password)
        found == ResetQuery(users, email, id_number)
    IN
    /\ UNCHANGED <<messages, now, message_notifications, sending, user_preferences>>
    /\ IF u # NULL
       THEN /\ resp' = Reply("forgot_password", u, NULL, "redirect") /\ connection' = "none"
            /\ UNCHANGED <<users, system_logs>>
       ELSE IF method = "GET"
       THEN /\ resp' = Reply("forgot_password", u, NULL, "form") /\ connection' = "none"
            /\ UNCHANGED <<users, system_logs>>
       ELSE IF ~ResetValid(email, id_number, new_password, confirm_password)
       THEN /\ resp' = Reply("forgot_password", u, NULL, "invalid") /\ connection' = "none"
            /\ UNCHANGED <<users, system_logs>>
       ELSE IF fault = "connect"
       THEN /\ resp' = Reply("forgot_password", u, NULL, "db_error") /\ connection' = "none"
            /\ UNCHANGED <<users, system_logs>>
       ELSE IF fault = "select"
       THEN /\ resp' = Reply("forgot_password", u, NULL, "error") /\ connection' = "closed"
            /\ UNCHANGED <<users, system_logs>>
       ELSE IF found = {}
       THEN /\ resp' = Reply("forgot_password", u, NULL, "no_match") /\ connection' = "closed"
            /\ UNCHANGED <<users, system_logs>>
       ELSE IF fault \in {"update", "insert_log", "commit"}
       THEN /\ resp' = Reply("forgot_password", u, NULL, "error") /\ connection' = "closed"
            /\ UNCHANGED <<users, system_logs>>
       ELSE LET id == CHOOSE i \in found : \A j \in found : i <= j IN
            /\ Len(system_logs) < MaxLogs
            /\ users' = [users EXCEPT ![id].password_hash = Hash(new_password),
                                      ![id].updated_at = now]
            /\ system_logs' = Append(system_logs, LogRow(id, "PASSWORD_RESET"))
            /\ resp' = Reply("forgot_password", u, NULL, "ok") /\ connection' = "closed"

\* ---------------------------------------------------------------- inputs
\* Form and JSON fields as the client sends them, before strip().
BlankText == <<SP>>
RawHello == <<"Hello">>
RawRequest == <<SP, Marker, SP>>
RawContents == { BlankText, <<SP, "Hi">> }
\* A message id of a request: every id of the table and one absent id.
MidInputs == 1..(Len(messages) + 1)

\* ------------------------------------------- the lifecycle of a message
\* Any user composes to user 2 (so a message has a third party, and user 2
\* writes to itself), and any user lists, views, answers, marks and deletes.
LifeReceivers == {NULL, 2}
LifeSubjects == { BlankText, RawHello }

Next ==
    \/ Tick
    \/ \E u \in Users : inbox(u, "none")
    \/ \E u \in Users, mid \in MidInputs : view_message(u, mid, "none")
    \/ \E u \in Users : compose_message(u, "GET", NULL, <<>>, <<>>, "none")
    \/ \E u \in Users, r \in LifeReceivers, s \in LifeSubjects, c \in RawContents :
          compose_message(u, "POST", r, s, c, "none")
    \/ \E u \in Users, mid \in MidInputs : reply_message(u, "GET", mid, <<>>, "none")
    \/ \E u \in Users, mid \in MidInputs, c \in RawContents :
          reply_message(u, "POST", mid, c, "none")
    \/ \E u \in Users, mid \in MidInputs : mark_as_read(u, mid, "none")
    \/ \E u \in Users, mid \in MidInputs : delete_message(u, mid, "none")

Spec == Init /\ [][Next]_vars

\* ------------------------------------------- sending and the duplicate guard
\* Users 2 and 3 send and compose, to the admin or to user 2, plain messages
\* and publication requests, with and without a content id; they delete, and
\* the system sends a notice.
GuardUsers == {2, 3}
GuardReceivers == {NULL, 1, 2}
GuardSubjects == { BlankText, RawHello, RawRequest }
ContentInputs == {NULL, 1}

NextGuard ==
    \/ \E u \in GuardUsers, r \in GuardReceivers, s \in GuardSubjects,
          c \in RawContents, rc \in ContentInputs :
          send_message(u, r, s, c, rc, "none")
    \/ \E u \in GuardUsers, r \in GuardReceivers, s \in GuardSubjects,
          c \in RawContents :
          compose_message(u, "POST", r, s, c, "none")
    \/ \E u \in Users, mid \in MidInputs : delete_message(u, mid, "none")
    \/ send_system_message(2, <<Marker>>, <<"Hi">>, "system", 1, NULL, "none")

SpecGuard == Init /\ [][NextGuard]_vars

\* --------------------------------------------------- sessions and settings
\* A row of message_notifications.
SettingRow(u, type, enabled, email) ==
    [ user_id |-> u, notification_type |-> type, is_enabled |-> enabled,
      email_enabled |-> email, updated_at |-> NULL ]

\* Tables the rows of which were created before the first request: none; a
\* row of user 2, a row of a type the handler does not know, and a row of
\* user 3; the four rows of user 2 and one of user 3.
SettingsTables ==
    { <<>>,
      << SettingRow(2, "new_message", FALSE, FALSE),
         SettingRow(2, "weekly_digest", TRUE, FALSE),
         SettingRow(3, "new_message", TRUE, FALSE) >>,
      << SettingRow(2, "new_message", TRUE, FALSE),
         SettingRow(2, "message_reply", TRUE, FALSE),
         SettingRow(2, "system_announcement", TRUE, FALSE),
         SettingRow(2, "content_feedback", FALSE, FALSE),
         SettingRow(3, "message_reply", FALSE, TRUE) >> }

InitSettings ==
    /\ Fresh
    /\ message_notifications \in SettingsTables

\* The checkboxes of a settings form: request.form.get(...) == 'on'.
TypeSet == { NotificationTypes[i] : i \in 1..Len(NotificationTypes) }
FormAllOn == [ t \in TypeSet |-> [ enabled |-> TRUE, email |-> TRUE ] ]
FormNewOnly == [ t \in TypeSet |-> [ enabled |-> (t = "new_message"), email |-> FALSE ] ]
Forms == { FormAllOn, FormNewOnly }

\* Every route of the blueprint behind its decorator, asked by a client with
\* no user_id in its session (NULL) or by user 2.
SessionUsers == {NULL, 2}

NextSession ==
    \/ \E u \in SessionUsers : login_required("unread_count", u, NULL, api_unread_count(u, "none"))
    \/ \E u \in SessionUsers : login_required("inbox", u, NULL, inbox(u, "none"))
    \/ \E u \in SessionUsers, mid \in MidInputs :
          login_required("view", u, mid, view_message(u, mid, "none"))
    \/ \E u \in SessionUsers, r \in LifeReceivers, c \in RawContents :
          login_required("compose", u, NULL, compose_message(u, "POST", r, RawHello, c, "none"))
    \/ \E u \in SessionUsers, mid \in MidInputs, c \in RawContents :
          login_required("reply", u, mid, reply_message(u, "POST", mid, c, "none"))
    \/ \E u \in SessionUsers, mid \in MidInputs :
          login_required("mark_read", u, mid, mark_as_read(u, mid, "none"))
    \/ \E u \in SessionUsers, mid \in MidInputs :
          login_required("delete", u, mid, delete_message(u, mid, "none"))
    \/ \E u \in SessionUsers : login_required("settings", u, NULL, notification_settings(u, "none"))
    \/ \E u \in SessionUsers, rc \in ContentInputs :
          login_required("check_request", u, NULL, check_publication_request(u, rc, "none"))
    \/ \E u \in SessionUsers, rc \in ContentInputs :
          login_required("send", u, NULL, send_message(u, 1, RawRequest, <<"Hi">>, rc, "none"))
    \/ \E u \in SessionUsers, form \in Forms :
          login_required("update_settings", u, NULL, update_notification_settings(u, form, "none"))

SpecSession == InitSettings /\ [][NextSession]_vars

\* ------------------------------------------------------ faults of the store
\* The admin and user 2 write to each other while the store may refuse the
\* connection or fail a write; collaborators send system messages.
FaultUsers == {1, 2}
FaultReceivers == {NULL, 1}
FaultSubjects == { BlankText, RawRequest }
ReadFaults == {"none", "connect"}
SystemSubjects == { <<Marker>>, <<"Notice">> }

NextFault ==
    \/ \E s \in SystemSubjects, f \in Faults :
          send_system_message(2, s, <<"Hi">>, "system", 1, NULL, f)
    \/ \E r \in FaultReceivers, s \in FaultSubjects, c \in RawContents, f \in Faults :
          send_message(2, r, s, c, 1, f)
    \/ \E r \in FaultReceivers, s \in FaultSubjects, c \in RawContents, f \in Faults :
          compose_message(2, "POST", r, s, c, f)
    \/ \E f \in ReadFaults : compose_message(2, "GET", NULL, <<>>, <<>>, f)
    \/ \E u \in FaultUsers, mid \in MidInputs, f \in ReadFaults :
          reply_message(u, "GET", mid, <<>>, f)
    \/ \E u \in FaultUsers, mid \in MidInputs, c \in RawContents, f \in Faults :
          reply_message(u, "POST", mid, c, f)
    \/ \E u \in FaultUsers, mid \in MidInputs, f \in Faults : view_message(u, mid, f)
    \/ \E u \in FaultUsers, mid \in MidInputs, f \in Faults : mark_as_read(u, mid, f)
    \/ \E u \in FaultUsers, mid \in MidInputs, f \in Faults : delete_message(u, mid, f)
    \/ \E u \in FaultUsers, f \in ReadFaults : inbox(u, f)

SpecFault == Init /\ [][NextFault]_vars

\* ------------------------------------------------- the settings of two users
\* Users 2 and 3 read and update their notification settings.
SettingsUsers == {2, 3}

NextSettings ==
    \/ Tick
    \/ \E u \in SettingsUsers, f \in ReadFaults : notification_settings(u, f)
    \/ \E u \in SettingsUsers, form \in Forms, f \in Faults :
          update_notification_settings(u, form, f)

SpecSettings == InitSettings /\ [][NextSettings]_vars

\* ------------------------------------------------------- concurrent sends
\* Two clients send at the same time, as users 2 and 3, to the admin: plain
\* messages and publication requests, with and without a content id.
Clients == {"a", "b"}
RaceSubjects == { BlankText, RawHello, RawRequest }
WriteFaults == {"none", "execute"}

NextRace ==
    \/ \E p \in Clients, u \in GuardUsers, s \in RaceSubjects, rc \in ContentInputs,
          f \in ReadFaults :
          send_check(p, u, 1, s, <<"Hi">>, rc, f)
    \/ \E p \in Clients, f \in WriteFaults : send_insert(p, f)

SpecRace == Init /\ [][NextRace]_vars

\* ------------------------------------------------- handlers of several writes
\* Visitors register and reset passwords, and user 2 updates its settings,
\* while any statement may fail.
Secret == << "s", "e", "c", "r", "e", "t" >>
Secret2 == << "s", "e", "c", "r", "e", "t", "2" >>
ShortPassword == << "a", "b", "c" >>

RegisterForm(username, email, id_number, password) ==
    [ username |-> username, email |-> email, id_number |-> id_number,
      password |-> password, confirm_password |-> password, terms |-> TRUE,
      well_formed |-> TRUE ]

\* Ann; Bob; a form with Ann's e-mail; a form with a short password.
RegisterForms ==
    { RegisterForm(<<"ann">>, <<"ann@x.com">>, <<"1001", SP>>, Secret),
      RegisterForm(<<"bob">>, <<"bob@x.com">>, <<"1002">>, Secret),
      RegisterForm(<<"eve">>, <<"ann@x.com">>, <<"1003">>, Secret),
      RegisterForm(<<"dan">>, <<"dan@x.com">>, <<"1004">>, ShortPassword) }

ResetForm(email, id_number, password, confirm) ==
    [ email |-> email, id_number |-> id_number, new_password |-> password,
      confirm_password |-> confirm ]

\* Ann's reset; Ann's e-mail with Bob's ID number; an unconfirmed password.
ResetForms ==
    { ResetForm(<<SP, "ann@x.com">>, <<"1001">>, Secret2, Secret2),
      ResetForm(<<"ann@x.com">>, <<"1002">>, Secret2, Secret2),
      ResetForm(<<"ann@x.com">>, <<"1001">>, Secret2, Secret) }

NoForm == RegisterForm(<<>>, <<>>, <<>>, <<>>)

NextAccounts ==
    \/ \E form \in RegisterForms, f \in RegisterFaults : register(NULL, "POST", form, f)
    \/ \E u \in SessionUsers : register(u, "GET", NoForm, "none")
    \/ \E form \in ResetForms, f \in ResetFaults : forgot_password(NULL, "POST", form, f)
    \/ \E u \in SessionUsers :
          forgot_password(u, "GET", ResetForm(<<>>, <<>>, <<>>, <<>>), "none")
    \/ \E form \in Forms, f \in Faults : update_notification_settings(2, form, f)

SpecAccounts == InitSettings /\ [][NextAccounts]_vars

\* ------------------------------------------------ requests, one after another
\* User 2 sends and composes publication requests to the admin, spelled
\* with either case, with and without a content id; every user views,
\* answers, marks and deletes.  No system message is sent.
SerialSubjects == { RawRequest, <<MarkerLower>> }
SerialContent == <<"Hi">>

NextSerial ==
    \/ \E s \in SerialSubjects, rc \in ContentInputs :
          send_message(2, 1, s, SerialContent, rc, "none")
    \/ compose_message(2, "POST", 1, RawRequest, SerialContent, "none")
    \/ \E u \in Users, mid \in MidInputs :
          reply_message(u, "POST", mid, SerialContent, "none")
    \/ \E u \in Users, mid \in MidInputs : view_message(u, mid, "none")
    \/ \E u \in Users, mid \in MidInputs : mark_as_read(u, mid, "none")
    \/ \E u \in Users, mid \in MidInputs : delete_message(u, mid, "none")

SpecSerial == Init /\ [][NextSerial]_vars

\* ------------------------------------------------- asking before sending
\* Users 2 and 3 send plain messages and publication requests about content
\* 1, or about none, to the admin and to user 2, ask whether a request
\* about content 1 exists, and delete.
CheckUsers == {2, 3}
CheckReceivers == {1, 2}
CheckSubjects == { RawHello, RawRequest }
CheckContents == {1}

NextCheck ==
    \/ \E u \in CheckUsers, r \in CheckReceivers, s \in CheckSubjects, rc \in ContentInputs :
          send_message(u, r, s, SerialContent, rc, "none")
    \/ \E u \in CheckUsers, c \in CheckContents : check_publication_request(u, c, "none")
    \/ \E u \in Users, mid \in MidInputs : delete_message(u, mid, "none")

SpecCheck == Init /\ [][NextCheck]_vars

\* ================================================================ claims
\* The step is a request to route op (every handler leaves the clock alone
\* and records its route in resp; Tick changes the clock only).
IsRequest(op) == resp'.op = op /\ now' = now

\* C1: an inbox page of user U lists as received exactly the messages whose
\* receiver is U and that U has not deleted as receiver, and as sent exactly
\* the messages whose sender is U and that U has not deleted as sender; of
\* the messages U received (sent), the page leaves out exactly those with
\* is_deleted_by_receiver (is_deleted_by_sender).
C1_InboxLists ==
    (resp.op = "inbox" /\ resp.outcome = "ok") =>
        LET U == resp.user IN
        /\ \A i \in resp.received \cup resp.sent : i \in 1..Len(messages)
        /\ \A i \in 1..Len(messages) :
             /\ i \in resp.received <=>
                  (messages[i].receiver_id = U /\ messages[i].is_deleted_by_receiver = FALSE)
             /\ i \in resp.sent <=>
                  (messages[i].sender_id = U /\ messages[i].is_deleted_by_sender = FALSE)
             /\ messages[i].receiver_id = U =>
                  (i \notin resp.received <=> messages[i].is_deleted_by_receiver)
             /\ messages[i].sender_id = U =>
                  (i \notin resp.sent <=> messages[i].is_deleted_by_sender)

\* An inbox page that lists one received message and leaves out another that
\* its user received and deleted.
C1_Witness ==
    /\ resp.op = "inbox"
    /\ resp.outcome = "ok"
    /\ \E i, j \in 1..Len(messages) :
         /\ i \in resp.received
         /\ j \notin resp.received
         /\ messages[j].receiver_id = resp.user
         /\ messages[j].is_deleted_by_receiver

\* C3: once is_read is true it stays true, and read_at keeps the value
\* stamped at the first false-to-true transition.
C3_ReadStampedOnce ==
    [][ \A i \in 1..Len(messages) :
          messages[i].is_read =>
             /\ messages'[i].is_read
             /\ messages'[i].read_at = messages[i].read_at ]_vars

\* C4: a view by the receiver of an unread message marks it read and stamps
\* read_at with the time of that view; a further view by the receiver, right
\* after a view by the receiver, changes nothing in the store, so is_read
\* stays true and read_at stays the time of the first view.
C4_ViewIdempotent ==
    [][ IsRequest("view") =>
          LET U == resp'.user
              m == resp'.mid
          IN
          /\ ( /\ m \in 1..Len(messages)
               /\ messages[m].receiver_id = U
               /\ ~messages[m].is_deleted_by_receiver
               /\ ~messages[m].is_read )
             => /\ messages'[m].is_read
                /\ messages'[m].read_at = resp'.at
                /\ resp'.at = now
          /\ ( /\ resp.op = "view" /\ resp.outcome = "shown"
               /\ resp.user = U /\ resp.mid = m
               /\ messages[m].receiver_id = U )
             => /\ messages' = messages
                /\ messages'[m].is_read
                /\ messages'[m].read_at <= resp.at ]_vars

\* The receiver's view of a message that an earlier view stamped: the view
\* ran after the stamp and did not move it.
C4_Witness ==
    /\ resp.op = "view"
    /\ resp.outcome = "shown"
    /\ resp.mid \in 1..Len(messages)
    /\ messages[resp.mid].receiver_id = resp.user
    /\ messages[resp.mid].is_read
    /\ messages[resp.mid].read_at < resp.at

\* The text has a character that is not whitespace.
NonBlank(s) == \E i \in 1..Len(s) : s[i] # SP

\* The step appends exactly one row and changes no earlier row.
InsertsOne ==
    /\ Len(messages') = Len(messages) + 1
    /\ \A i \in 1..Len(messages) : messages'[i] = messages[i]

\* C5: a successful reply by U to message o inserts exactly one message,
\* with parent_message_id = o.id, sender_id = U, receiver_id = o.sender_id
\* and subject = "Re: " + o.subject, and changes no existing message.
C5_ReplyRow ==
    [][ (IsRequest("reply") /\ resp'.outcome = "ok") =>
          LET U == resp'.user
              o == resp'.mid
              new == messages'[Len(messages')]
          IN
          /\ o \in 1..Len(messages)
          /\ InsertsOne
          /\ new.parent_message_id = o
          /\ new.sender_id = U
          /\ new.receiver_id = messages[o].sender_id
          /\ Len(new.subject) = Len(messages[o].subject) + 1
          /\ new.subject[1] = "Re: "
          /\ \A k \in 1..Len(messages[o].subject) :
                new.subject[k + 1] = messages[o].subject[k] ]_vars

\* A reply has been sent to a message whose sender is not its receiver.
C5_Witness ==
    /\ resp.op = "reply"
    /\ resp.outcome = "ok"
    /\ Len(messages) >= 2
    /\ messages[Len(messages)].parent_message_id = resp.mid
    /\ messages[resp.mid].sender_id # messages[resp.mid].receiver_id
    /\ messages[Len(messages)].receiver_id = messages[resp.mid].sender_id

\* C6: a delete of an existing message by a user who is neither its sender
\* nor its receiver is answered access-denied and changes no message.
C6_DeleteDenied ==
    [][ ( /\ IsRequest("delete")
          /\ resp'.mid \in 1..Len(messages)
          /\ messages[resp'.mid].sender_id # resp'.user
          /\ messages[resp'.mid].receiver_id # resp'.user )
        => /\ resp'.outcome = "denied"
           /\ messages' = messages ]_vars

\* A third party asked to delete an existing, undeleted message.
C6_Witness ==
    /\ resp.op = "delete"
    /\ resp.outcome = "denied"
    /\ resp.mid \in 1..Len(messages)
    /\ messages[resp.mid].sender_id # resp.user
    /\ messages[resp.mid].receiver_id # resp.user
    /\ ~messages[resp.mid].is_deleted_by_sender
    /\ ~messages[resp.mid].is_deleted_by_receiver

\* C7: view_message shows message m to U iff U is m's receiver and
\* is_deleted_by_receiver is false, or U is m's sender and
\* is_deleted_by_sender is false; otherwise (an absent id included) the
\* answer is access-denied and the store is unchanged.
C7_ViewAccess ==
    [][ IsRequest("view") =>
          LET U == resp'.user
              m == resp'.mid
              visible ==
                  /\ m \in 1..Len(messages)
                  /\ IF messages[m].receiver_id = U /\ ~messages[m].is_deleted_by_receiver
                     THEN TRUE
                     ELSE messages[m].sender_id = U /\ ~messages[m].is_deleted_by_sender
          IN
          /\ resp'.outcome = "shown" <=> visible
          /\ ~visible => (resp'.outcome = "denied" /\ messages' = messages) ]_vars

\* The receiver is refused a message it deleted while the sender's copy is
\* still there.
C7_Witness ==
    /\ resp.op = "view"
    /\ resp.outcome = "denied"
    /\ resp.mid \in 1..Len(messages)
    /\ messages[resp.mid].receiver_id = resp.user
    /\ messages[resp.mid].sender_id # resp.user
    /\ messages[resp.mid].is_deleted_by_receiver
    /\ ~messages[resp.mid].is_deleted_by_sender

\* C8: a reply to message id i by U changes the store only if i exists, U
\* is its receiver, U has not deleted it as receiver and the trimmed content
\* is not empty; when one of these fails the reply is refused and no message
\* is inserted or modified.
C8_ReplyGuard ==
    [][ IsRequest("reply") =>
          LET u == resp'.user
              mid == resp'.mid
              accessible ==
                  /\ mid \in 1..Len(messages)
                  /\ messages[mid].receiver_id = u
                  /\ messages[mid].is_deleted_by_receiver = FALSE
          IN
          /\ messages' # messages => (accessible /\ InsertsOne)
          /\ ~accessible => (messages' = messages /\ resp'.outcome = "denied")
          /\ \A c \in RawContents :
                reply_message(u, "POST", mid, c, "none") =>
                   /\ messages' # messages => NonBlank(c)
                   /\ (accessible /\ ~NonBlank(c)) =>
                         (messages' = messages /\ resp'.outcome = "invalid") ]_vars

\* A receiver was refused a reply to a message it had deleted.
C8_Witness ==
    /\ resp.op = "reply"
    /\ resp.outcome = "denied"
    /\ resp.mid \in 1..Len(messages)
    /\ messages[resp.mid].receiver_id = resp.user
    /\ messages[resp.mid].is_deleted_by_receiver

\* C9: a successful delete by the sender sets is_deleted_by_sender and
\* nothing else; a successful delete by the receiver (who is not the sender)
\* sets is_deleted_by_receiver and nothing else.
C9_DeleteFrame ==
    [][ (IsRequest("delete") /\ resp'.outcome = "ok") =>
          LET U == resp'.user
              m == resp'.mid
          IN
          /\ m \in 1..Len(messages)
          /\ Len(messages') = Len(messages)
          /\ \A i \in 1..Len(messages) : i # m => messages'[i] = messages[i]
          /\ messages[m].sender_id = U \/ messages[m].receiver_id = U
          /\ messages[m].sender_id = U =>
                messages'[m] = [messages[m] EXCEPT !.is_deleted_by_sender = TRUE]
          /\ messages[m].sender_id # U =>
                messages'[m] = [messages[m] EXCEPT !.is_deleted_by_receiver = TRUE] ]_vars

\* The receiver deleted a read message that its sender still keeps, next to
\* another message.
C9_Witness ==
    /\ resp.op = "delete"
    /\ resp.outcome = "ok"
    /\ Len(messages) >= 2
    /\ resp.mid \in 1..Len(messages)
    /\ messages[resp.mid].receiver_id = resp.user
    /\ messages[resp.mid].sender_id # resp.user
    /\ messages[resp.mid].is_deleted_by_receiver
    /\ ~messages[resp.mid].is_deleted_by_sender
    /\ messages[resp.mid].is_read
    /\ messages[resp.mid].read_at # NULL

\* The publication requests of U to r about content id rc in the table.
Requests(tbl, U, r, rc) ==
    { i \in 1..Len(tbl) :
        /\ tbl[i].sender_id = U
        /\ tbl[i].receiver_id = r
        /\ tbl[i].related_content_id = rc
        /\ \E k \in 1..Len(tbl[i].subject) : tbl[i].subject[k] = "Publication Request" }

\* Those of them that neither party has deleted.
LiveRequests(tbl, U, r, rc) ==
    { i \in Requests(tbl, U, r, rc) :
        ~tbl[i].is_deleted_by_sender /\ ~tbl[i].is_deleted_by_receiver }

\* The step is a second /messages/send right after an accepted one (whose
\* row is the last of the table): by the same user, to the same receiver,
\* with the same related_content_id, both subjects holding the marker.
SecondRequest(s, c) ==
    /\ resp.op = "send"
    /\ resp.outcome = "ok"
    /\ Len(messages) >= 1
    /\ \E k \in 1..Len(messages[Len(messages)].subject) :
          messages[Len(messages)].subject[k] = "Publication Request"
    /\ \E k \in 1..Len(s) : s[k] = "Publication Request"
    /\ NonBlank(c)
    /\ send_message(resp.user, messages[Len(messages)].receiver_id, s, c,
                    messages[Len(messages)].related_content_id, "none")

\* C2 as stated: the second of two serial publication-request sends with the
\* same sender, receiver and related_content_id is refused as a duplicate
\* and inserts nothing, and the store then holds exactly one such message.
C2_SecondIsDuplicate ==
    [][ \A s \in GuardSubjects, c \in RawContents :
          SecondRequest(s, c) =>
             LET first == messages[Len(messages)] IN
             /\ resp'.outcome = "duplicate"
             /\ messages' = messages
             /\ Cardinality(Requests(messages', first.sender_id, first.receiver_id,
                                     first.related_content_id)) = 1 ]_vars

\* C2 amended: when the related_content_id is not null, the second send is
\* refused as a duplicate and inserts nothing, and the store then holds
\* exactly one such message that neither party has deleted.
C2_SecondIsDuplicateWithContentId ==
    [][ \A s \in GuardSubjects, c \in RawContents :
          (SecondRequest(s, c) /\ messages[Len(messages)].related_content_id # NULL) =>
             LET first == messages[Len(messages)] IN
             /\ resp'.outcome = "duplicate"
             /\ messages' = messages
             /\ Cardinality(LiveRequests(messages', first.sender_id, first.receiver_id,
                                         first.related_content_id)) = 1 ]_vars

\* A send was refused as a duplicate of the sender's live publication
\* request, the last row inserted, sent to a user other than the admin.
C2_Witness ==
    /\ resp.op = "send"
    /\ resp.outcome = "duplicate"
    /\ Len(messages) >= 1
    /\ LET first == messages[Len(messages)] IN
       /\ first.sender_id = resp.user
       /\ first.related_content_id # NULL
       /\ first.receiver_id # SYSTEM_SENDER
       /\ Len(messages) \in LiveRequests(messages, resp.user, first.receiver_id,
                                         first.related_content_id)
       /\ Cardinality(LiveRequests(messages, resp.user, first.receiver_id,
                                   first.related_content_id)) = 1

\* t is s without its leading and trailing whitespace.
IsTrimOf(t, s) ==
    /\ t # <<>> => (t[1] # SP /\ t[Len(t)] # SP)
    /\ \E i \in 0..Len(s) : \E j \in 0..Len(s) :
          /\ i + Len(t) + j = Len(s)
          /\ \A k \in 1..i : s[k] = SP
          /\ \A k \in 1..Len(t) : s[i + k] = t[k]
          /\ \A k \in 1..j : s[i + Len(t) + k] = SP

\* The step is an accepted compose or send by the user of resp' with these
\* fields.
AcceptedCompose(r, s, c) ==
    /\ resp'.outcome = "ok"
    /\ \/ /\ IsRequest("compose")
          /\ compose_message(resp'.user, "POST", r, s, c, "none")
       \/ /\ IsRequest("send")
          /\ \E rc \in ContentInputs : send_message(resp'.user, r, s, c, rc, "none")

\* The row a compose adds, but for its subject and content.
ComposedRow(new, u, r) ==
    /\ InsertsOne
    /\ new.sender_id = u
    /\ new.receiver_id = r
    /\ new.message_type = "personal"
    /\ new.is_read = FALSE
    /\ new.is_deleted_by_sender = FALSE
    /\ new.is_deleted_by_receiver = FALSE

\* C10 as stated: an accepted compose or send by U adds exactly one message,
\* with sender_id = U, the given receiver_id, subject and content, type
\* personal, is_read false and both deletion flags false, and changes no
\* existing message.
C10_ComposeStoresGiven ==
    [][ \A r \in GuardReceivers, s \in GuardSubjects, c \in RawContents :
          AcceptedCompose(r, s, c) =>
             LET new == messages'[Len(messages')] IN
             /\ ComposedRow(new, resp'.user, r)
             /\ new.subject = s
             /\ new.content = c ]_vars

\* C10 amended: the subject and the content stored are the given ones
\* without their leading and trailing whitespace.
C10_ComposeStoresTrimmed ==
    [][ \A r \in GuardReceivers, s \in GuardSubjects, c \in RawContents :
          AcceptedCompose(r, s, c) =>
             LET new == messages'[Len(messages')] IN
             /\ ComposedRow(new, resp'.user, r)
             /\ IsTrimOf(new.subject, s)
             /\ IsTrimOf(new.content, c) ]_vars

\* A send has added a second row, a publication request whose subject came
\* in with whitespace around it.
C10_Witness ==
    /\ resp.op = "send"
    /\ resp.outcome = "ok"
    /\ Len(messages) >= 2
    /\ LET new == messages[Len(messages)] IN
       /\ new.sender_id = resp.user
       /\ new.subject = <<Marker>>
       /\ new.content = <<"Hi">>
       /\ ~new.is_read
       /\ ~new.is_deleted_by_sender
       /\ ~new.is_deleted_by_receiver

\* C11: no step removes a message: the ids of the table only grow, and the
\* sender_id, receiver_id, subject, content and parent_message_id of an
\* existing message never change; a step changes of an existing message at
\* most is_read, read_at and the two deletion flags.
C11_NoRemoval ==
    [][ /\ Len(messages') >= Len(messages)
        /\ \A i \in 1..Len(messages) :
              /\ messages'[i].sender_id = messages[i].sender_id
              /\ messages'[i].receiver_id = messages[i].receiver_id
              /\ messages'[i].subject = messages[i].subject
              /\ messages'[i].content = messages[i].content
              /\ messages'[i].parent_message_id = messages[i].parent_message_id
              /\ [ messages'[i] EXCEPT
                     !.is_read = messages[i].is_read,
                     !.read_at = messages[i].read_at,
                     !.is_deleted_by_sender = messages[i].is_deleted_by_sender,
                     !.is_deleted_by_receiver = messages[i].is_deleted_by_receiver ]
                 = messages[i] ]_vars

\* The first of two messages has been read and deleted by both its parties,
\* the last of them by this request, and is still in the table with the
\* subject and the parties it was composed with.
C11_Witness ==
    /\ resp.op = "delete"
    /\ resp.outcome = "ok"
    /\ resp.mid = 1
    /\ Len(messages) = 2
    /\ messages[1].is_read
    /\ messages[1].is_deleted_by_sender
    /\ messages[1].is_deleted_by_receiver
    /\ messages[1].sender_id # messages[1].receiver_id
    /\ messages[1].subject = <<"Hello">>
    /\ messages[2].parent_message_id = 1

\* C12: a request to a messaging route with no user_id in the session is
\* answered by the redirect to login and the handler does not run: no
\* connection is opened, the response holds nothing read from the store,
\* and the messages and the notification settings are unchanged.
C12_LoginRequired ==
    [][ (resp'.user = NULL /\ resp'.op # "system" /\ now' = now) =>
          /\ resp' = Reply(resp'.op, NULL, resp'.mid, "login")
          /\ connection' = "none"
          /\ messages' = messages
          /\ message_notifications' = message_notifications ]_vars

\* A client without a session asked to delete an existing message that
\* neither party had deleted, while settings rows exist.
C12_Witness ==
    /\ resp.op = "delete"
    /\ resp.user = NULL
    /\ resp.outcome = "login"
    /\ resp.mid \in 1..Len(messages)
    /\ ~messages[resp.mid].is_deleted_by_sender
    /\ ~messages[resp.mid].is_deleted_by_receiver
    /\ message_notifications # <<>>

\* The answer is a failure: the error redirect, or JSON with success false.
Failure(outcome) == outcome \in {"denied", "not_found"}

\* C13: for view, reply, mark-read and delete, a request of user U naming an
\* existing message U is no party to gets the same response as U's request
\* just before that named an absent id, and both are failures.
C13_NoDistinction ==
    [][ \A op \in {"view", "reply", "mark_read", "delete"} :
          ( /\ IsRequest(op)
            /\ resp.op = op
            /\ resp.user = resp'.user
            /\ resp.mid \notin 1..Len(messages)
            /\ resp'.mid \in 1..Len(messages)
            /\ messages[resp'.mid].sender_id # resp'.user
            /\ messages[resp'.mid].receiver_id # resp'.user )
          => /\ resp'.outcome = resp.outcome
             /\ resp'.count = resp.count
             /\ Failure(resp.outcome)
             /\ Failure(resp'.outcome) ]_vars

\* C14: send_system_message never raises to its caller: it returns true or
\* false; true iff exactly one message was added, with sender 1 and the
\* given receiver, subject, content and message_type; false, with the table
\* unchanged, when the store is unavailable or the insert fails; and with
\* the store working it inserts whatever publication requests the table
\* already holds (no duplicate guard).
C14_SystemMessage ==
    [][ IsRequest("system") =>
          /\ resp'.outcome \in {"true", "false"}
          /\ resp'.outcome = "true" <=> InsertsOne
          /\ resp'.outcome = "false" => messages' = messages
          /\ \A s \in SystemSubjects, f \in Faults :
                send_system_message(2, s, <<"Hi">>, "system", 1, NULL, f) =>
                   /\ f = "none" <=> resp'.outcome = "true"
                   /\ resp'.outcome = "true" =>
                         LET new == messages'[Len(messages')] IN
                         /\ new.sender_id = 1
                         /\ new.receiver_id = 2
                         /\ new.subject = s
                         /\ new.content = <<"Hi">>
                         /\ new.message_type = "system"
                         /\ new.related_content_id = 1 ]_vars

\* A system message was sent although the table already held the same live
\* publication request from the system sender about the same content.
C14_Witness ==
    /\ resp.op = "system"
    /\ resp.outcome = "true"
    /\ Len(messages) = 2
    /\ \A i \in 1..2 :
          /\ messages[i].sender_id = 1
          /\ messages[i].receiver_id = 2
          /\ messages[i].subject = <<"Publication Request">>
          /\ messages[i].related_content_id = 1
          /\ ~messages[i].is_deleted_by_sender
          /\ ~messages[i].is_deleted_by_receiver

\* The (user_id, notification_type) keys of the rows of a settings table.
SettingKeys(tbl) == { <<tbl[i].user_id, tbl[i].notification_type>> : i \in 1..Len(tbl) }

\* C15: a settings update by U creates and removes no row: the table keeps
\* its rows and their (user_id, notification_type) keys; a row that changes
\* is a row of U of one of the four types; a type of the four for which U
\* has no row still has none; the rows of every other user are unchanged.
C15_UpdateFrame ==
    [][ IsRequest("update_settings") =>
          LET U == resp'.user
              old == message_notifications
              new == message_notifications'
              four == {"new_message", "message_reply", "system_announcement",
                       "content_feedback"}
          IN
          /\ Len(new) = Len(old)
          /\ SettingKeys(new) = SettingKeys(old)
          /\ \A i \in 1..Len(old) :
                /\ new[i].user_id = old[i].user_id
                /\ new[i].notification_type = old[i].notification_type
                /\ new[i] # old[i] =>
                      (old[i].user_id = U /\ old[i].notification_type \in four)
                /\ old[i].user_id # U => new[i] = old[i]
          /\ \A t \in four :
                <<U, t>> \notin SettingKeys(old) => <<U, t>> \notin SettingKeys(new) ]_vars

\* User 2, who has a new_message row, a row of another type and no
\* message_reply row, updated: the first row has changed, the second has
\* not, user 3's row has not, and there is still no message_reply row.
C15_Witness ==
    /\ resp.op = "update_settings"
    /\ resp.outcome = "ok"
    /\ resp.user = 2
    /\ Len(message_notifications) = 3
    /\ message_notifications[1].is_enabled
    /\ message_notifications[1].updated_at # NULL
    /\ message_notifications[2] = SettingRow(2, "weekly_digest", TRUE, FALSE)
    /\ message_notifications[3] = SettingRow(3, "new_message", TRUE, FALSE)
    /\ <<2, "message_reply">> \notin SettingKeys(message_notifications)

\* C16: the guard is a check followed by an insert, with no lock: a request
\* that has passed the count check inserts its row whatever was committed
\* meanwhile, so when two requests with the same sender, receiver,
\* related_content_id and a "Publication Request" subject have both passed
\* the check before either commits, both insert, and the second insert
\* makes a second live publication request for the same content.
C16_CheckThenInsert ==
    [][ \A q \in sending :
          (sending' = sending \ {q} /\ send_insert(q.client, "none")) =>
             LET new == messages'[Len(messages')]
                 live(tbl) == LiveRequests(tbl, q.user, q.receiver_id, q.related_content_id)
             IN
             /\ resp'.outcome = "ok"
             /\ InsertsOne
             /\ new.sender_id = q.user
             /\ new.receiver_id = q.receiver_id
             /\ new.subject = q.subject
             /\ new.related_content_id = q.related_content_id
             /\ (\E k \in 1..Len(q.subject) : q.subject[k] = "Publication Request")
                   => Cardinality(live(messages')) = Cardinality(live(messages)) + 1 ]_vars

\* Two sends have both inserted: the table holds two live publication
\* requests of one sender to one receiver about one content id.
C16_Witness ==
    /\ resp.op = "send"
    /\ resp.outcome = "ok"
    /\ Len(messages) = 2
    /\ messages[1].sender_id = messages[2].sender_id
    /\ messages[1].receiver_id = messages[2].receiver_id
    /\ messages[1].related_content_id = messages[2].related_content_id
    /\ messages[1].related_content_id # NULL
    /\ \A i \in 1..2 :
          /\ messages[i].subject = <<"Publication Request">>
          /\ ~messages[i].is_deleted_by_sender
          /\ ~messages[i].is_deleted_by_receiver

\* C17: a handler that opened a connection has closed it when it returns
\* its response, on every exit path: after every request the connection is
\* closed, or none was opened.
C17_ConnectionClosed ==
    resp.op # "none" => connection \in {"none", "closed"}

\* The step has appended exactly one row to the table.
Appended(old, new) == Len(new) = Len(old) + 1 /\ SubSeq(new, 1, Len(old)) = old

\* C18: the writes of a handler of several writes are committed together:
\* a registration persists its user row, its preferences row and its log
\* row, or none of them; a password reset persists the new password and its
\* log row, or neither; and a registration, a password reset or a settings
\* update that reports an error has persisted none of its writes.
C18_AllOrNothing ==
    [][ /\ IsRequest("register") =>
             /\ \/ UNCHANGED accounts
                \/ /\ Appended(users, users')
                   /\ Appended(user_preferences, user_preferences')
                   /\ Appended(system_logs, system_logs')
             /\ resp'.outcome # "ok" => UNCHANGED accounts
        /\ IsRequest("forgot_password") =>
             /\ \/ UNCHANGED accounts
                \/ /\ Appended(system_logs, system_logs')
                   /\ user_preferences' = user_preferences
                   /\ \E i \in 1..Len(users) :
                         /\ system_logs'[Len(system_logs')].user_id = i
                         /\ users' = [users EXCEPT
                                        ![i].password_hash = users'[i].password_hash,
                                        ![i].updated_at = now]
             /\ resp'.outcome # "ok" => UNCHANGED accounts
        /\ IsRequest("update_settings") =>
             (resp'.outcome # "ok" => UNCHANGED message_notifications) ]_vars

C20_DeleteIdempotent ==
    [][ ( /\ IsRequest("delete")
          /\ resp'.mid \in 1..Len(messages)
          /\ \/ /\ messages[resp'.mid].sender_id = resp'.user
                /\ messages[resp'.mid].is_deleted_by_sender
             \/ /\ messages[resp'.mid].sender_id # resp'.user
                /\ messages[resp'.mid].receiver_id = resp'.user
                /\ messages[resp'.mid].is_deleted_by_receiver )
        => /\ resp'.outcome = "ok"
           /\ messages' = messages
           /\ \/ messages'[resp'.mid].is_deleted_by_sender
              \/ messages'[resp'.mid].is_deleted_by_receiver ]_vars

\* The receiver deleted again a message it had deleted and its sender had
\* not: the request succeeded and changed nothing.
C20_Witness ==
    /\ resp.op = "delete"
    /\ resp.outcome = "ok"
    /\ ~resp.changed
    /\ resp.mid \in 1..Len(messages)
    /\ messages[resp.mid].receiver_id = resp.user
    /\ messages[resp.mid].sender_id # resp.user
    /\ messages[resp.mid].is_deleted_by_receiver
    /\ ~messages[resp.mid].is_deleted_by_sender

\* C21: is_read and read_at of a message change only in a view or mark-read
\* request of that message's receiver on that message; no request of any
\* other user, a view by the sender included, changes either column, and
\* is_read goes from false to true in no other step.
C21_ReadByReceiverOnly ==
    [][ \A i \in 1..Len(messages) :
          ( \/ messages'[i].is_read # messages[i].is_read
            \/ messages'[i].read_at # messages[i].read_at )
          => /\ now' = now
             /\ resp'.op \in {"view", "mark_read"}
             /\ resp'.mid = i
             /\ resp'.user = messages[i].receiver_id
             /\ resp'.outcome \in {"shown", "ok"} ]_vars

\* One message has been read, and the last request is a view by the sender
\* of another message, of which that user is not the receiver: the page was
\* shown and the message is still unread and unstamped.
C21_Witness ==
    /\ resp.op = "view"
    /\ resp.outcome = "shown"
    /\ resp.mid \in 1..Len(messages)
    /\ messages[resp.mid].sender_id = resp.user
    /\ messages[resp.mid].receiver_id # resp.user
    /\ ~messages[resp.mid].is_read
    /\ messages[resp.mid].read_at = NULL
    /\ \E j \in 1..Len(messages) :
         /\ j # resp.mid
         /\ messages[j].is_read
         /\ messages[j].read_at # NULL

\* C22 as stated: after any sequence of send, compose, reply, view, mark-read
\* and delete requests served one after another, every triple (sender,
\* receiver, related_content_id) has at most one message whose subject
\* contains "Publication Request" and whose two deletion flags are false.
C22_OneLiveRequest ==
    \A i \in 1..Len(messages) :
        Cardinality(LiveRequests(messages, messages[i].sender_id,
                                 messages[i].receiver_id,
                                 messages[i].related_content_id)) <= 1

\* C22 amended: the same for every triple whose related_content_id is not
\* null.
C22_OneLiveRequestWithContentId ==
    \A i \in 1..Len(messages) :
        messages[i].related_content_id # NULL =>
            Cardinality(LiveRequests(messages, messages[i].sender_id,
                                     messages[i].receiver_id,
                                     messages[i].related_content_id)) <= 1

\* A send was refused as a duplicate while the table holds two publication
\* requests of its user with one receiver and one content id: an older one
\* that a party has deleted and the live one that replaced it.
C22_Witness ==
    /\ resp.op = "send"
    /\ resp.outcome = "duplicate"
    /\ \E i, j \in 1..Len(messages) :
         /\ i < j
         /\ messages[i].related_content_id # NULL
         /\ {i, j} \subseteq Requests(messages, resp.user, messages[i].receiver_id,
                                      messages[i].related_content_id)
         /\ messages[i].is_deleted_by_sender \/ messages[i].is_deleted_by_receiver
         /\ LiveRequests(messages, resp.user, messages[i].receiver_id,
                         messages[i].related_content_id) = {j}

\* C23: after delete_message has answered success to user U for message m,
\* an inbox page of U lists m neither as received nor as sent, whoever the
\* sender and the receiver of m are (U may be both); stated for the page U
\* asks for right after the delete.
C23_DeletedNotListed ==
    [][ ( /\ resp.op = "delete"
          /\ resp.outcome = "ok"
          /\ IsRequest("inbox")
          /\ resp'.outcome = "ok"
          /\ resp'.user = resp.user )
        => resp.mid \notin (resp'.received \cup resp'.sent) ]_vars

\* C24: check_publication_request of user U about content id c answers
\* exists = true exactly when, in the same state of the store, a send by U
\* to receiver r with related_content_id = c and a subject containing
\* "Publication Request" is refused as a duplicate, for every receiver r.
C24_CheckAgreesWithGuard ==
    [][ \A u \in CheckUsers, c \in CheckContents, r \in CheckReceivers :
          (IsRequest("check_request") /\ check_publication_request(u, c, "none"))
          => ( resp'.outcome = "exists"
               <=> ENABLED ( /\ send_message(u, r, RawRequest, SerialContent, c, "none")
                             /\ resp'.outcome = "duplicate" ) ) ]_vars

\* C25: once the receiver of a message has soft-deleted it, no request of
\* that receiver changes the message: a view or a reply of the receiver on
\* it is denied, and a mark-read leaves its is_read and read_at as they
\* were.
C25_DeletedIsFrozen ==
    [][ \A i \in 1..Len(messages) :
          ( /\ messages[i].is_deleted_by_receiver
            /\ now' = now
            /\ resp'.user = messages[i].receiver_id )
          => /\ messages'[i] = messages[i]
             /\ (resp'.op \in {"view", "reply"} /\ resp'.mid = i)
                   => resp'.outcome = "denied" ]_vars

====
